---- MODULE Spec2Model ----
(***************************************************************************)
(* The satellite core peer (satellite/core.go): construction by New, the   *)
(* concurrent fan-out of Core.Run over an errgroup, and the teardown of    *)
(* Core.Close.                                                              *)
(*                                                                         *)
(* An error value is a sequence of atomic error names: nil is the empty    *)
(* sequence, errs.Combine and errs.Group concatenate.                      *)
(***************************************************************************)
EXTENDS Integers, Sequences, FiniteSets, TLC

\* ------------------------------------------------------------------ bounds
\* Close calls the owner of a constructed peer makes.
MaxCloseCalls == 2
\* Subsystem closes that fail within one Core.Close call.
MaxCloseErrors == 2
\* Tasks (the first ones Run launches) whose Run may return an error of
\* their own, or a cancellation error nobody asked for.
MaxFaulty == 2

\* ------------------------------------------------------------------ errors
Nil == <<>>
Canceled == <<"context canceled">>
ErrTLS == <<"tlsopts.NewOptions">>
ErrProto == <<"versionInfo.Proto">>
ErrWorker == <<"audit.NewWorker">>
RunErr(t) == <<t>>
CloseErr(f) == <<f>>

\* errs.Combine: the non-nil errors, in order.
Combine(a, b) == a \o b

\* ------------------------------------------------------------- Core fields
Fields ==
    { "Version", "Dialer", "ContactService", "OverlayDB", "OverlayService",
      "LiveAccountingCache", "ProjectUsage", "OrdersService",
      "MetainfoDatabase", "MetainfoService", "MetainfoLoop",
      "RepairChecker", "RepairRepairer",
      "AuditQueue", "AuditVerifier", "AuditReporter", "AuditWorker", "AuditChore",
      "GarbageCollectionService", "DBCleanupChore",
      "AccountingTally", "AccountingRollup",
      "PaymentsAccounts", "PaymentsChore",
      "GracefulExitChore", "MetricsChore",
      "DowntimeService", "DowntimeDetectionChore" }

\* The configuration and collaborators New is given, as far as New branches
\* on them.
Configs ==
    [ tlsFails : BOOLEAN, protoFails : BOOLEAN, workerFails : BOOLEAN,
      gracefulExit : BOOLEAN, provider : {"mock", "stripecoinpayments"} ]

\* The assignments of New in source order.  check: the failure tested right
\* before the assignment; when: the configuration branch it sits in; args:
\* the peer fields read and handed to the constructor.
Step(f, args, check, when) == [field |-> f, args |-> args, check |-> check, when |-> when]

NewSteps ==
    << Step("Version", {}, "none", "always"),
       Step("Dialer", {}, "tls", "always"),
       Step("ContactService", {"OverlayService", "Dialer"}, "proto", "always"),
       Step("OverlayDB", {}, "none", "always"),
       Step("OverlayService", {"OverlayDB"}, "none", "always"),
       Step("LiveAccountingCache", {}, "none", "always"),
       Step("ProjectUsage", {"LiveAccountingCache"}, "none", "always"),
       Step("OrdersService", {"OverlayService"}, "none", "always"),
       Step("MetainfoDatabase", {}, "none", "always"),
       Step("MetainfoService", {"MetainfoDatabase"}, "none", "always"),
       Step("MetainfoLoop", {"MetainfoDatabase"}, "none", "always"),
       Step("RepairChecker", {"MetainfoService", "MetainfoLoop", "OverlayService"},
            "none", "always"),
       Step("RepairRepairer",
            {"MetainfoService", "OrdersService", "OverlayService", "Dialer"},
            "none", "always"),
       Step("AuditQueue", {}, "none", "always"),
       Step("AuditVerifier",
            {"MetainfoService", "Dialer", "OverlayService", "OrdersService"},
            "none", "always"),
       Step("AuditReporter", {"OverlayService"}, "none", "always"),
       Step("AuditWorker", {"AuditQueue", "AuditVerifier", "AuditReporter"},
            "worker", "always"),
       Step("AuditChore", {"AuditQueue", "MetainfoLoop"}, "none", "always"),
       Step("GarbageCollectionService", {"Dialer", "OverlayDB", "MetainfoLoop"},
            "none", "always"),
       Step("DBCleanupChore", {}, "none", "always"),
       Step("AccountingTally", {"LiveAccountingCache", "MetainfoLoop"}, "none", "always"),
       Step("AccountingRollup", {}, "none", "always"),
       Step("PaymentsAccounts", {}, "none", "always"),
       Step("PaymentsChore", {}, "none", "stripe"),
       Step("GracefulExitChore", {"OverlayDB", "MetainfoLoop"}, "none", "gracefulexit"),
       Step("MetricsChore", {"MetainfoLoop"}, "none", "always"),
       Step("DowntimeService", {"OverlayService", "ContactService"}, "none", "always"),
       Step("DowntimeDetectionChore", {"OverlayService", "DowntimeService"},
            "none", "always") >>

\* The `if err != nil` tests of New.
CheckFails(c, check) ==
    CASE check = "tls" -> c.tlsFails
      [] check = "proto" -> c.protoFails
      [] check = "worker" -> c.workerFails
      [] OTHER -> FALSE

CheckErr(check) ==
    CASE check = "tls" -> ErrTLS
      [] check = "proto" -> ErrProto
      [] OTHER -> ErrWorker

\* The configuration branches of New: the payments provider switch and
\* config.GracefulExit.Enabled.
Enabled(c, when) ==
    CASE when = "stripe" -> c.provider = "stripecoinpayments"
      [] when = "gracefulexit" -> c.gracefulExit
      [] OTHER -> TRUE

\* Variant: the contact service closed before the overlay service it was
\* built after.
CloseOrderContactFirst ==
    << "DowntimeDetectionChore", "MetricsChore", "GracefulExitChore",
       "AuditChore", "AuditWorker",
       "AccountingRollup", "AccountingTally",
       "DBCleanupChore", "RepairRepairer", "RepairChecker",
       "ContactService", "OverlayService", "MetainfoLoop" >>

\* The order in which Core.Close visits the slots.
CloseOrder ==
    << "DowntimeDetectionChore", "MetricsChore", "GracefulExitChore",
       "AuditChore", "AuditWorker",
       "AccountingRollup", "AccountingTally",
       "DBCleanupChore", "RepairRepairer", "RepairChecker",
       "OverlayService", "ContactService", "MetainfoLoop" >>

\* The group.Go calls of Core.Run in source order; guarded marks the two
\* launches behind a nil check.
RunOrder ==
    << "MetainfoLoop", "Version", "RepairChecker", "RepairRepairer",
       "DBCleanupChore", "AccountingTally", "AccountingRollup",
       "AuditWorker", "AuditChore", "GarbageCollectionService",
       "GracefulExitChore", "MetricsChore", "PaymentsChore",
       "DowntimeDetectionChore" >>

\* Variant: the graceful-exit chore launched without the nil check.
RunGuardedPaymentsOnly == {"PaymentsChore"}

RunGuarded == {"GracefulExitChore", "PaymentsChore"}

Range(s) == { s[i] : i \in 1..Len(s) }

\* The subsystems: what Run runs or Close closes.
Subsystems == Range(RunOrder) \cup Range(CloseOrder)

\* The tasks whose Run may misbehave.
Faulty == { RunOrder[i] : i \in 1..MaxFaulty }
NoRet == <<"running">>

VARIABLES
    cfg,          \* the configuration New was called with
    newState,     \* "building" | "closing" (teardown after a failed step) | "returned"
    newStep,      \* index into NewSteps of the next assignment
    newErr,       \* the error of the failed step
    newResult,    \* what New returned: [peer |-> non-nil?, err |-> error]
    peer,         \* the fields of the Core that are populated (non-nil)
    passedNil,    \* <<f, a>>: constructor of f was handed field a while it was nil
    closePc,      \* 0: no Close in progress; i: about to visit CloseOrder[i]
    closeCaller,  \* "New" | "owner"
    errlist,      \* the errs.Group of the Close in progress
    closeFailed,  \* the subsystems whose Close failed in the current (or last) Close call
    closeLog,     \* the subsystems closed by the current (or last) Close call, in order
    closeCalls,   \* Close calls the owner has started
    closeReturns, \* Close calls of the owner that have returned
    closeResult,  \* what the last Close call returned (nil while one is in progress)
    closeCount,   \* how often each subsystem's Close was invoked
    runPc,        \* "idle" | "waiting" (tasks launched, in group.Wait) | "returned"
    task,         \* per subsystem of RunOrder: "idle" | "running" | "done"
    ret,          \* what the Run of each faulty task returned (NoRet before)
    groupErr,     \* errgroup.Group.err: the first non-nil error a task function returned
    ctxCanceled,  \* the context derived by errgroup.WithContext is canceled
    parentCanceled, \* the context Run was given is canceled
    runResult,    \* what Run returned
    closed,       \* Upload: Commit has been called
    aborted,      \* Upload: Abort has been called
    metadata,     \* Upload: the metadata set last (NoMetadata: none)
    written,      \* Upload: the number of writes accepted
    lastCall,     \* Upload: the last call made on it and what it returned
    mu,           \* Aggregator.mu: the caller holding it (NoCaller: free)
    backing,      \* the backing array of Aggregator.scheduled, cap(scheduled) slots
    scheduledLen, \* len(Aggregator.scheduled)
    pc,           \* per caller: "idle" | "batching" (inside batcher.Batch)
    call,         \* per caller: the method it is in, or returned from last, and its item
    batchItems,   \* per caller: the slice handed to batcher.Batch
    issuedItems,  \* per caller: the items its batch held when it was issued
    result,       \* per caller: what its last call returned
    nextItem,     \* the next batch item a caller will pass
    scheduledLog, \* every item appended to scheduled so far, in order
    issuedLog     \* every item handed to the batcher so far, in order

newVars == <<cfg, newState, newStep, newErr, newResult, peer, passedNil>>
closeVars == <<closePc, closeCaller, errlist, closeFailed, closeLog, closeCalls, closeReturns,
               closeResult, closeCount>>
runVars == <<runPc, task, ret, groupErr, ctxCanceled, parentCanceled,
             runResult>>
coreVars == <<newVars, closeVars, runVars>>
uploadVars == <<closed, aborted, metadata, written, lastCall>>
aggregatorVars == <<mu, backing, scheduledLen, pc, call, batchItems, issuedItems, result,
                    nextItem, scheduledLog, issuedLog>>
vars == <<coreVars, uploadVars, aggregatorVars>>

\* ---------------------------------------------------------------- Upload
\* The upload handle the test suite drives: SetMetadata, Write, Commit, Abort.
MaxWrites == 3
\* SetMetadata takes the standard and the custom metadata of the object.
MetadataValues == [standard : {"std1", "std2"}, custom : {"custom1", "custom2"}]
NoMetadata == [standard |-> "none", custom |-> "none"]
ErrUploadDone == <<"upload done">>
NoCall == [op |-> "none", closed |-> FALSE, aborted |-> FALSE, err |-> Nil]

\* What a call leaves in lastCall: the method, whether Commit and Abort had
\* been called when it was made, and the error it returned.
Called(o, e) == [op |-> o, closed |-> closed, aborted |-> aborted, err |-> e]

UploadInit ==
    /\ closed = FALSE
    /\ aborted = FALSE
    /\ metadata = NoMetadata
    /\ written = 0
    /\ lastCall = NoCall

\* ------------------------------------------------------------ Aggregator
MaxCallers == 2
MaxItems == 3
Callers == 1..MaxCallers
NoCaller == 0
NoItem == 0
ErrBatch == <<"batch failed">>
ErrMissing == <<"missing batch responses">>
NoBatch == [shared |-> FALSE, len |-> 0, array |-> <<>>]
NoResult == [resp |-> NoItem, err |-> Nil]

\* New: no item scheduled, a nil slice.
AggregatorInit ==
    /\ mu = NoCaller
    /\ backing = <<>>
    /\ scheduledLen = 0
    /\ pc = [p \in Callers |-> "idle"]
    /\ call = [p \in Callers |-> [op |-> "none", item |-> NoItem]]
    /\ batchItems = [p \in Callers |-> NoBatch]
    /\ issuedItems = [p \in Callers |-> <<>>]
    /\ result = [p \in Callers |-> NoResult]
    /\ nextItem = 1
    /\ scheduledLog = <<>>
    /\ issuedLog = <<>>

Init ==
    /\ cfg \in Configs
    /\ newState = "building"
    /\ newStep = 1
    /\ newErr = Nil
    /\ newResult = [peer |-> FALSE, err |-> Nil]
    /\ peer = {}
    /\ passedNil = {}
    /\ closePc = 0
    /\ closeCaller = "none"
    /\ errlist = <<>>
    /\ closeFailed = {}
    /\ closeLog = <<>>
    /\ closeCalls = 0
    /\ closeReturns = 0
    /\ closeResult = Nil
    /\ closeCount = [s \in Subsystems |-> 0]
    /\ runPc = "idle"
    /\ task = [t \in Range(RunOrder) |-> "idle"]
    /\ ret = [t \in Faulty |-> NoRet]
    /\ groupErr = Nil
    /\ ctxCanceled = FALSE
    /\ parentCanceled = FALSE
    /\ runResult = Nil
    /\ UploadInit
    /\ AggregatorInit

\* ------------------------------------------------------------------- New
\* One assignment of New whose failure test passes (or that has none): the
\* field is populated when its configuration branch is taken.
NewBuild ==
    /\ newState = "building"
    /\ newStep <= Len(NewSteps)
    /\ LET s == NewSteps[newStep] IN
        /\ ~CheckFails(cfg, s.check)
        /\ IF Enabled(cfg, s.when)
              THEN /\ peer' = peer \cup {s.field}
                   /\ passedNil' = passedNil \cup { <<s.field, a>> : a \in s.args \ peer }
              ELSE UNCHANGED <<peer, passedNil>>
    /\ newStep' = newStep + 1
    /\ UNCHANGED <<cfg, newState, newErr, newResult, closeVars, runVars>>
    /\ UNCHANGED <<uploadVars, aggregatorVars>>

\* A failing step: `return nil, errs.Combine(err, peer.Close())` enters Close.
NewFail ==
    /\ newState = "building"
    /\ newStep <= Len(NewSteps)
    /\ CheckFails(cfg, NewSteps[newStep].check)
    /\ newErr' = CheckErr(NewSteps[newStep].check)
    /\ newState' = "closing"
    /\ closePc' = 1
    /\ closeCaller' = "New"
    /\ errlist' = <<>>
    /\ closeFailed' = {}
    /\ closeLog' = <<>>
    /\ UNCHANGED <<cfg, newStep, newResult, peer, passedNil, closeCalls, closeReturns,
                   closeResult, closeCount, runVars>>
    /\ UNCHANGED <<uploadVars, aggregatorVars>>

\* `return peer, nil`
NewReturn ==
    /\ newState = "building"
    /\ newStep = Len(NewSteps) + 1
    /\ newState' = "returned"
    /\ newResult' = [peer |-> TRUE, err |-> Nil]
    /\ UNCHANGED <<cfg, newStep, newErr, peer, passedNil, closeVars, runVars>>
    /\ UNCHANGED <<uploadVars, aggregatorVars>>

\* ----------------------------------------------------------------- Close
\* The owner of a constructed peer calls Close.
CloseCall ==
    /\ newState = "returned"
    /\ newResult.peer
    /\ runPc # "waiting"
    /\ closePc = 0
    /\ closeCalls < MaxCloseCalls
    /\ closeCalls' = closeCalls + 1
    /\ closePc' = 1
    /\ closeCaller' = "owner"
    /\ errlist' = <<>>
    /\ closeFailed' = {}
    /\ closeLog' = <<>>
    /\ closeResult' = Nil
    /\ UNCHANGED <<newVars, closeReturns, closeCount, runVars>>
    /\ UNCHANGED <<uploadVars, aggregatorVars>>

\* `if peer.X != nil`
Populated(p, f) == f \in p

\* Variant: only the first error is kept.
AddFirstOnly(list, e) == IF list = <<>> THEN e ELSE list

\* errlist.Add: a nil error is not added.
Add(list, e) == list \o e

\* One `if peer.X != nil { errlist.Add(peer.X.Close()) }` of Close; whether
\* the subsystem's Close fails is up to the subsystem.
CloseSlot ==
    /\ closePc \in 1..Len(CloseOrder)
    /\ LET f == CloseOrder[closePc] IN
        IF Populated(peer, f)
          THEN /\ closeCount' = [closeCount EXCEPT ![f] = @ + 1]
               /\ closeLog' = Append(closeLog, f)
               /\ \E fails \in BOOLEAN :
                    /\ fails => Cardinality(closeFailed) < MaxCloseErrors
                    /\ errlist' = Add(errlist, IF fails THEN CloseErr(f) ELSE Nil)
                    /\ closeFailed' = IF fails THEN closeFailed \cup {f} ELSE closeFailed
          ELSE UNCHANGED <<closeCount, closeLog, errlist, closeFailed>>
    /\ closePc' = closePc + 1
    /\ UNCHANGED <<newVars, closeCaller, closeCalls, closeReturns, closeResult, runVars>>
    /\ UNCHANGED <<uploadVars, aggregatorVars>>

\* `return errlist.Err()`: to New, which returns the combined error and no
\* peer, or to the owner.
CloseReturn ==
    /\ closePc = Len(CloseOrder) + 1
    /\ closePc' = 0
    /\ closeResult' = errlist
    /\ errlist' = <<>>
    /\ IF closeCaller = "New"
          THEN /\ newState' = "returned"
               /\ newResult' = [peer |-> FALSE, err |-> Combine(newErr, errlist)]
               /\ UNCHANGED closeReturns
          ELSE /\ closeReturns' = closeReturns + 1
               /\ UNCHANGED <<newState, newResult>>
    /\ UNCHANGED <<cfg, newStep, newErr, peer, passedNil, closeCaller, closeFailed,
                   closeLog, closeCalls, closeCount, runVars>>
    /\ UNCHANGED <<uploadVars, aggregatorVars>>

\* ------------------------------------------------------------------- Run
\* Variant: the cancellation error is passed on to the group.
KeepCanceled(e) == e

\* errs2.IgnoreCanceled: a cancellation error becomes nil.
IgnoreCanceled(e) == IF e = Canceled THEN Nil ELSE e

\* Whether Run calls group.Go for subsystem t: always, but for the two
\* launches behind `if peer.X != nil`.
Launched(p, t) == t \notin RunGuarded \/ Populated(p, t)

\* Run up to group.Wait: the child context is derived from the parent and
\* every task is launched.  Run tests neither whether it ran before nor
\* whether Close was called; a later call comes with a context of its own.
RunStart ==
    /\ newState = "returned"
    /\ newResult.peer
    /\ closePc = 0
    /\ runPc \in {"idle", "returned"}
    /\ runPc' = "waiting"
    /\ task' = [t \in Range(RunOrder) |-> IF Launched(peer, t) THEN "running" ELSE "idle"]
    /\ ret' = [t \in Faulty |-> NoRet]
    /\ groupErr' = Nil
    /\ runResult' = Nil
    /\ \E c \in (IF runPc = "idle" THEN {parentCanceled} ELSE BOOLEAN) :
        /\ parentCanceled' = c
        /\ ctxCanceled' = c
    /\ UNCHANGED <<newVars, closeVars>>
    /\ UNCHANGED <<uploadVars, aggregatorVars>>

\* What the Run of subsystem t may return: nil; the cancellation error once
\* the context is canceled; for a faulty task also an error of its own, or
\* the cancellation error at any time.
Returns(t) ==
    {Nil}
      \cup (IF ctxCanceled \/ t \in Faulty THEN {Canceled} ELSE {})
      \cup (IF t \in Faulty THEN {RunErr(t)} ELSE {})

\* errgroup's errOnce.Do: the first non-nil error is kept ...
FirstErr(err, e) == IF err = Nil THEN e ELSE err

\* Variant: a group made without WithContext, whose errors cancel nothing.
NoCancelOnErr(canceled, err, e) == canceled

\* ... and cancels the group's context.
CancelOnErr(canceled, err, e) == canceled \/ (err = Nil /\ e # Nil)

\* The function handed to group.Go returns: subsystem t's Run returned r,
\* IgnoreCanceled filters it, the group records the first error and cancels.
TaskReturn(t) ==
    /\ runPc = "waiting"
    /\ task[t] = "running"
    /\ \E r \in Returns(t) :
        LET e == IgnoreCanceled(r) IN
        /\ groupErr' = FirstErr(groupErr, e)
        /\ ctxCanceled' = CancelOnErr(ctxCanceled, groupErr, e)
        /\ ret' = IF t \in Faulty THEN [ret EXCEPT ![t] = r] ELSE ret
    /\ task' = [task EXCEPT ![t] = "done"]
    /\ UNCHANGED <<newVars, closeVars, runPc, parentCanceled, runResult>>
    /\ UNCHANGED <<uploadVars, aggregatorVars>>

\* The caller cancels the context it gave to Run (or is about to give).
ParentCancel ==
    /\ newState = "returned"
    /\ newResult.peer
    /\ runPc \in {"idle", "waiting"}
    /\ ~parentCanceled
    /\ parentCanceled' = TRUE
    /\ ctxCanceled' = (runPc = "waiting")
    /\ UNCHANGED <<newVars, closeVars, runPc, task, ret, groupErr, runResult>>
    /\ UNCHANGED <<uploadVars, aggregatorVars>>

\* Variant: Wait gives up waiting once an error is recorded.
WaitDoneOrFailed(tk) == groupErr # Nil \/ \A t \in Range(RunOrder) : tk[t] # "running"

\* group.Wait's wg.Wait: every launched task function has returned.
WaitDone(tk) == \A t \in Range(RunOrder) : tk[t] # "running"

\* `return group.Wait()`: wait, cancel the context, return the group's error.
RunReturn ==
    /\ runPc = "waiting"
    /\ WaitDone(task)
    /\ runPc' = "returned"
    /\ runResult' = groupErr
    /\ ctxCanceled' = TRUE
    /\ UNCHANGED <<newVars, closeVars, task, ret, groupErr, parentCanceled>>
    /\ UNCHANGED <<uploadVars, aggregatorVars>>

Next ==
    \/ NewBuild
    \/ NewFail
    \/ NewReturn
    \/ CloseCall
    \/ CloseSlot
    \/ CloseReturn
    \/ RunStart

Spec == Init /\ [][Next]_vars

\* ------------------------------------------------- Run on a constructed peer
\* What New leaves populated when no step fails.
BuiltBefore(c, i) == { NewSteps[j].field : j \in { k \in 1..(i - 1) : Enabled(c, NewSteps[k].when) } }
FullPeer(c) == BuiltBefore(c, Len(NewSteps) + 1)
FullPassedNil(c) ==
    UNION { { <<NewSteps[i].field, a>> : a \in NewSteps[i].args \ BuiltBefore(c, i) } :
            i \in { k \in 1..Len(NewSteps) : Enabled(c, NewSteps[k].when) } }

InitRun ==
    /\ cfg \in { c \in Configs : ~c.tlsFails /\ ~c.protoFails /\ ~c.workerFails }
    /\ newState = "returned"
    /\ newStep = Len(NewSteps) + 1
    /\ newErr = Nil
    /\ newResult = [peer |-> TRUE, err |-> Nil]
    /\ peer = FullPeer(cfg)
    /\ passedNil = FullPassedNil(cfg)
    /\ closePc = 0
    /\ closeCaller = "none"
    /\ errlist = <<>>
    /\ closeFailed = {}
    /\ closeLog = <<>>
    /\ closeCalls = 0
    /\ closeReturns = 0
    /\ closeResult = Nil
    /\ closeCount = [s \in Subsystems |-> 0]
    /\ runPc = "idle"
    /\ task = [t \in Range(RunOrder) |-> "idle"]
    /\ ret = [t \in Faulty |-> NoRet]
    /\ groupErr = Nil
    /\ ctxCanceled = FALSE
    /\ parentCanceled = FALSE
    /\ runResult = Nil
    /\ UploadInit
    /\ AggregatorInit

NextRun ==
    \/ RunStart
    \/ \E t \in Range(RunOrder) : TaskReturn(t)
    \/ ParentCancel
    \/ RunReturn

SpecRun == InitRun /\ [][NextRun]_vars

\* A task observes the canceled context and returns; the goroutine in
\* group.Wait is scheduled once every task function has returned.
CooperativeReturn == ctxCanceled /\ \E t \in Range(RunOrder) : TaskReturn(t)

\* The configuration without the optional chores: Run launches the twelve
\* tasks it launches with every configuration.
InitRunPlain ==
    /\ InitRun
    /\ ~cfg.gracefulExit
    /\ cfg.provider = "mock"

SpecRunFair ==
    /\ InitRunPlain
    /\ [][NextRun]_vars
    /\ WF_vars(CooperativeReturn)
    /\ WF_vars(RunReturn)

\* InitRun is where a New without failing step ends.
NewEndsAsInitRun ==
    (newState = "returned" /\ newResult.peer) =>
        /\ peer = FullPeer(cfg)
        /\ passedNil = FullPassedNil(cfg)
        /\ newResult.err = Nil

\* ---------------------------------------------------------------- Upload
\* The core left as constructed by Init, for the parts that do not use it.
CoreIdle ==
    /\ Init
    /\ cfg = [tlsFails |-> FALSE, protoFails |-> FALSE, workerFails |-> FALSE,
              gracefulExit |-> FALSE, provider |-> "mock"]

\* Variant: only an aborted upload counts as done.
UploadDoneAbortedOnly(c, a) == a

\* An upload is done once it was committed or aborted.
UploadDone(c, a) == c \/ a

\* upload.SetMetadata(ctx, md, nil)
SetMetadata ==
    /\ \E m \in MetadataValues :
        IF UploadDone(closed, aborted)
          THEN /\ lastCall' = Called("SetMetadata", ErrUploadDone)
               /\ UNCHANGED metadata
          ELSE /\ lastCall' = Called("SetMetadata", Nil)
               /\ metadata' = m
    /\ UNCHANGED <<closed, aborted, written>>
    /\ UNCHANGED <<coreVars, aggregatorVars>>

\* upload.Write on an upload that is not done.
Write ==
    /\ ~UploadDone(closed, aborted)
    /\ written < MaxWrites
    /\ written' = written + 1
    /\ lastCall' = Called("Write", Nil)
    /\ UNCHANGED <<closed, aborted, metadata>>
    /\ UNCHANGED <<coreVars, aggregatorVars>>

\* upload.Commit on an upload that was not committed before.
Commit ==
    /\ ~closed
    /\ IF UploadDone(closed, aborted)
          THEN /\ lastCall' = Called("Commit", ErrUploadDone)
               /\ UNCHANGED closed
          ELSE /\ lastCall' = Called("Commit", Nil)
               /\ closed' = TRUE
    /\ UNCHANGED <<aborted, metadata, written>>
    /\ UNCHANGED <<coreVars, aggregatorVars>>

\* upload.Abort on an upload that is not done.
Abort ==
    /\ ~UploadDone(closed, aborted)
    /\ aborted' = TRUE
    /\ lastCall' = Called("Abort", Nil)
    /\ UNCHANGED <<closed, metadata, written>>
    /\ UNCHANGED <<coreVars, aggregatorVars>>

NextUpload ==
    \/ SetMetadata
    \/ Write
    \/ Commit
    \/ Abort

SpecUpload == CoreIdle /\ [][NextUpload]_vars

\* ------------------------------------------------------------ Aggregator
\* a.scheduled, the first len slots of its backing array.
Scheduled == SubSeq(backing, 1, scheduledLen)

\* Go's append on a full slice allocates an array of twice the capacity.
GrowCap(c) == IF c = 0 THEN 1 ELSE 2 * c
Grows(arr, n) == n = Len(arr)

\* The backing array after append(a.scheduled, x): x is written into the
\* slot behind the last element, in place unless the array is full.
Appended(arr, n, x) ==
    IF Grows(arr, n)
      THEN [i \in 1..GrowCap(Len(arr)) |->
              IF i <= n THEN arr[i] ELSE IF i = n + 1 THEN x ELSE NoItem]
      ELSE [arr EXCEPT ![n + 1] = x]

\* A slice taken from a.scheduled shares its backing array until append
\* moves a.scheduled to a new array; then it keeps the old one.
Detached(views, arr, n) ==
    IF Grows(arr, n)
      THEN [q \in Callers |->
              IF views[q].shared
                THEN [shared |-> FALSE, len |-> views[q].len, array |-> arr]
                ELSE views[q]]
      ELSE views

\* The elements of a slice as a reader of it sees them now.
Items(view) == SubSeq(IF view.shared THEN backing ELSE view.array, 1, view.len)

\* Variant: a mutex that never blocks.
MutexNeverHeld(holder) == TRUE

\* a.mu.Lock() returns only while no caller holds the mutex.
MutexFree(holder) == holder = NoCaller

\* Variant: the scheduled items are kept after a batch was issued.
KeepScheduled(n) == n

\* a.scheduled = a.scheduled[:0]
Truncated(n) == 0

\* issueBatchLocked on scheduled items (arr, n), by caller p in method op
\* with item x: nothing scheduled returns (nil, nil) and the method returns;
\* otherwise batcher.Batch is called with the slice and p is inside it,
\* holding the mutex.
IssueBatchLocked(p, op, x, arr, n, views) ==
    /\ backing' = arr
    /\ scheduledLen' = Truncated(n)
    /\ call' = [call EXCEPT ![p] = [op |-> op, item |-> x]]
    /\ result' = [result EXCEPT ![p] = NoResult]
    /\ IF n = 0
          THEN /\ mu' = NoCaller
               /\ batchItems' = views
               /\ UNCHANGED <<pc, issuedItems, issuedLog>>
          ELSE /\ mu' = p
               /\ pc' = [pc EXCEPT ![p] = "batching"]
               /\ batchItems' = [views EXCEPT ![p] = [shared |-> TRUE, len |-> n, array |-> <<>>]]
               /\ issuedItems' = [issuedItems EXCEPT ![p] = SubSeq(arr, 1, n)]
               /\ issuedLog' = issuedLog \o SubSeq(arr, 1, n)

\* Schedule: lock, append, unlock.
Schedule(p) ==
    /\ pc[p] = "idle"
    /\ MutexFree(mu)
    /\ nextItem <= MaxItems
    /\ backing' = Appended(backing, scheduledLen, nextItem)
    /\ scheduledLen' = scheduledLen + 1
    /\ batchItems' = Detached(batchItems, backing, scheduledLen)
    /\ scheduledLog' = Append(scheduledLog, nextItem)
    /\ call' = [call EXCEPT ![p] = [op |-> "Schedule", item |-> nextItem]]
    /\ result' = [result EXCEPT ![p] = NoResult]
    /\ nextItem' = nextItem + 1
    /\ mu' = NoCaller
    /\ UNCHANGED <<pc, issuedItems, issuedLog>>
    /\ UNCHANGED <<coreVars, uploadVars>>

\* ScheduleAndFlush up to the call of the batcher: lock, append, issue.
ScheduleAndFlush(p) ==
    /\ pc[p] = "idle"
    /\ MutexFree(mu)
    /\ nextItem <= MaxItems
    /\ scheduledLog' = Append(scheduledLog, nextItem)
    /\ nextItem' = nextItem + 1
    /\ IssueBatchLocked(p, "ScheduleAndFlush", nextItem,
                        Appended(backing, scheduledLen, nextItem), scheduledLen + 1,
                        Detached(batchItems, backing, scheduledLen))
    /\ UNCHANGED <<coreVars, uploadVars>>

\* Flush up to the call of the batcher, or to its return when nothing is
\* scheduled.
Flush(p) ==
    /\ pc[p] = "idle"
    /\ MutexFree(mu)
    /\ IssueBatchLocked(p, "Flush", NoItem, backing, scheduledLen, batchItems)
    /\ UNCHANGED <<nextItem, scheduledLog>>
    /\ UNCHANGED <<coreVars, uploadVars>>

\* What batcher.Batch may return for a batch: an error, or the responses to
\* the first k items, each named by the item it answers.
BatchOutcomes(batch) ==
    { [resp |-> <<>>, err |-> ErrBatch] }
      \cup { [resp |-> SubSeq(batch, 1, k), err |-> Nil] : k \in 0..Len(batch) }

\* Variant: an empty response list is not tested for.
LastResponseUnchecked(resp, err) ==
    IF err # Nil THEN [resp |-> NoItem, err |-> err]
    ELSE [resp |-> IF Len(resp) = 0 THEN NoItem ELSE resp[Len(resp)], err |-> Nil]

\* What ScheduleAndFlush returns after issueBatchLocked returned (resp, err).
LastResponse(resp, err) ==
    IF err # Nil THEN [resp |-> NoItem, err |-> err]
    ELSE IF Len(resp) = 0 THEN [resp |-> NoItem, err |-> ErrMissing]
    ELSE [resp |-> resp[Len(resp)], err |-> Nil]

\* batcher.Batch returns; Flush returns its error, ScheduleAndFlush the last
\* response; the deferred Unlock runs.
BatchReturn(p) ==
    /\ pc[p] = "batching"
    /\ \E out \in BatchOutcomes(Items(batchItems[p])) :
        result' = [result EXCEPT ![p] =
                      IF call[p].op = "Flush"
                        THEN [resp |-> NoItem, err |-> out.err]
                        ELSE LastResponse(out.resp, out.err)]
    /\ pc' = [pc EXCEPT ![p] = "idle"]
    /\ batchItems' = [batchItems EXCEPT ![p] = NoBatch]
    /\ issuedItems' = [issuedItems EXCEPT ![p] = <<>>]
    /\ mu' = NoCaller
    /\ UNCHANGED <<backing, scheduledLen, call, nextItem, scheduledLog, issuedLog>>
    /\ UNCHANGED <<coreVars, uploadVars>>

NextAggregator ==
    \E p \in Callers :
        \/ Schedule(p)
        \/ ScheduleAndFlush(p)
        \/ Flush(p)
        \/ BatchReturn(p)

SpecAggregator == CoreIdle /\ [][NextAggregator]_vars

\* ================================================================ claims
\* A task's Run returned an error that is no cancellation error.
RealErr(r) == r \notin {NoRet, Nil, Canceled}
FailedTasks == { t \in Faulty : RealErr(ret[t]) }
LaunchedTasks == { t \in Range(RunOrder) : Launched(peer, t) }
NewFailed == newState = "returned" /\ ~newResult.peer
OwnerCloseReturned == closeReturns >= 1 /\ closePc = 0

\* The errors of the tasks that Run keeps anywhere once it has returned: the
\* group's single error, which it returns.  Run writes no log entry and has no
\* other store for an error.
RunRecorded == IF runResult = Nil THEN {} ELSE {runResult}

\* C1: when a build step of New fails, New returns a non-nil error and every
\* subsystem constructed before the failing step has had its Close invoked
\* exactly once by the time New returns.
C1_FailedNewClosesEveryBuiltSubsystem ==
    NewFailed =>
        /\ newResult.err # Nil
        /\ \A s \in Subsystems \cap peer : closeCount[s] = 1

\* C2: when one task fails with a non-cancellation error and no other task
\* fails, the shared child context is canceled from that moment on, for every
\* task still running, and Run returns that task's error.
C2_SoleFailureCancelsAndIsReturned ==
    \A a \in Faulty :
        (FailedTasks = {a}) =>
            /\ ctxCanceled
            /\ groupErr = ret[a]
            /\ \A t \in LaunchedTasks : task[t] = "running" => Canceled \in Returns(t)
            /\ runPc = "returned" => runResult = ret[a]

C2_Witness ==
    /\ runPc = "returned"
    /\ ~parentCanceled
    /\ \E a \in Faulty :
        /\ FailedTasks = {a}
        /\ runResult = RunErr(a)
        /\ \A b \in Faulty \ {a} : ret[b] = Canceled

\* C3: Run has returned only if every task it launched has returned, and
\* while a launched task is running Run cannot return, also after a failure
\* or a cancellation.
C3_RunReturnsAfterEveryTask ==
    /\ runPc = "returned" => \A t \in LaunchedTasks : task[t] = "done"
    /\ (\E t \in LaunchedTasks : task[t] = "running") => ~ENABLED RunReturn

C3_Witness ==
    /\ runPc = "returned"
    /\ runResult # Nil
    /\ LaunchedTasks # {}
    /\ \A t \in LaunchedTasks : task[t] = "done"

\* C4: Run returns nil whenever no launched task returned a non-cancellation
\* error, be it that all returned nil or that the parent context was canceled
\* and tasks returned the cancellation error.
C4_NoFailureNoError ==
    (runPc = "returned" /\ FailedTasks = {}) => runResult = Nil

C4_Witness ==
    /\ runPc = "returned"
    /\ parentCanceled
    /\ \A t \in Faulty : ret[t] = Canceled
    /\ runResult = Nil

\* C5: when two tasks fail with distinct non-cancellation errors, Run returns
\* one of the two and the other one is still recorded by the supervisor.
C5_BothFailuresKept ==
    (runPc = "returned" /\ Cardinality(FailedTasks) >= 2) =>
        /\ runResult \in { ret[t] : t \in FailedTasks }
        /\ \A t \in FailedTasks : ret[t] \in RunRecorded

\* C6: the second of two Close calls in succession returns no error,
\* whatever the first returned.
C6_SecondCloseReturnsNil ==
    (closeReturns = 2 /\ closePc = 0) => closeResult = Nil

\* C7: over any sequence of Close calls no subsystem's Close is invoked more
\* than once.
C7_NoSubsystemClosedTwice ==
    \A s \in Subsystems : closeCount[s] <= 1

\* C8: within one Close call every populated slot of Close's list is closed
\* whichever closes failed before it, and the returned error holds the error
\* of every failed close, being nil exactly when none failed.
C8_CloseVisitsAllAndAggregates ==
    /\ closePc \in 1..(Len(CloseOrder) + 1) =>
          Range(closeLog) = { CloseOrder[i] : i \in 1..(closePc - 1) } \cap peer
    /\ (closePc = 0 /\ closeCaller # "none") =>
          /\ Range(closeLog) = Range(CloseOrder) \cap peer
          /\ Range(closeResult) = UNION { Range(CloseErr(f)) : f \in closeFailed }
          /\ Len(closeResult) = Cardinality(closeFailed)
          /\ (closeResult = Nil) <=> (closeFailed = {})

C8_Witness ==
    /\ closePc = 0
    /\ closeCaller = "owner"
    /\ closeFailed = {"DowntimeDetectionChore", "OverlayService"}
    /\ "MetainfoLoop" \in Range(closeLog)
    /\ Len(closeResult) = 2

\* C9: after Close has returned on a fully constructed peer, every populated
\* subsystem that Run launches as a task has had its Close invoked.
C9_EveryRunTaskClosed ==
    (OwnerCloseReturned /\ peer = FullPeer(cfg)) =>
        \A t \in LaunchedTasks : closeCount[t] >= 1

\* C10: Close closes the populated slots one after the other in the order
\* downtime detection, metrics chore, graceful-exit chore, audit chore, audit
\* worker, rollup, tally, db cleanup chore, repairer, repair checker, overlay
\* service, contact service, metainfo loop, skipping the empty slots.
C10_Order ==
    << "DowntimeDetectionChore", "MetricsChore", "GracefulExitChore",
       "AuditChore", "AuditWorker", "AccountingRollup", "AccountingTally",
       "DBCleanupChore", "RepairRepairer", "RepairChecker",
       "OverlayService", "ContactService", "MetainfoLoop" >>

C10_PopulatedPrefix(n) ==
    LET InPeer(f) == f \in peer
    IN SelectSeq(SubSeq(C10_Order, 1, n), InPeer)

RunningTasks == { t \in Range(RunOrder) : task[t] = "running" }
C11_TasksWith(c) ==
    (Range(RunOrder) \ {"GracefulExitChore", "PaymentsChore"})
      \cup (IF c.gracefulExit THEN {"GracefulExitChore"} ELSE {})
      \cup (IF c.provider = "stripecoinpayments" THEN {"PaymentsChore"} ELSE {})

C11_GracefulExitOptional ==
    (newState = "returned" /\ newResult.peer) =>
        /\ ("GracefulExitChore" \in peer) <=> cfg.gracefulExit
        /\ runPc = "waiting" =>
              /\ RunningTasks = C11_TasksWith(cfg)
              /\ Cardinality(RunningTasks) =
                    Cardinality(C11_TasksWith([cfg EXCEPT !.gracefulExit = TRUE]))
                      - (IF cfg.gracefulExit THEN 0 ELSE 1)
        /\ OwnerCloseReturned =>
              /\ Len(closeLog) = Len(CloseOrder) - (IF cfg.gracefulExit THEN 0 ELSE 1)
              /\ ~cfg.gracefulExit =>
                    /\ closeCount["GracefulExitChore"] = 0
                    /\ "GracefulExitChore" \notin Range(closeResult)
              /\ closeFailed = {} => closeResult = Nil

C11_Witness ==
    /\ ~cfg.gracefulExit
    /\ OwnerCloseReturned
    /\ closeResult = Nil
    /\ Len(closeLog) = Len(CloseOrder) - 1
    /\ runPc = "waiting"
    /\ task["GracefulExitChore"] = "idle"
    /\ task["MetricsChore"] = "running"

\* C15: at every step of Close the subsystem being closed has no dependency
\* (a subsystem handed to its constructor, such as the overlay service to the
\* contact service) that was closed before it; and when the metainfo loop is
\* closed, every constructed subsystem that holds it (checker, audit chore,
\* garbage collection, tally, graceful-exit chore, metrics chore) has been
\* closed already.
C15_Deps(f) == UNION { NewSteps[i].args : i \in { k \in 1..Len(NewSteps) : NewSteps[k].field = f } }

C15_CloseRespectsDependencies ==
    /\ \A i, j \in 1..Len(closeLog) : i < j => closeLog[i] \notin C15_Deps(closeLog[j])
    /\ "MetainfoLoop" \in Range(closeLog) =>
          \A f \in Subsystems \cap peer :
              "MetainfoLoop" \in C15_Deps(f) => closeCount[f] >= 1

\* C16: every field that a build step of New hands to a constructor has been
\* populated by an earlier step; in particular the contact service is built
\* with an overlay service that exists.
C16_ArgumentsAlreadyBuilt ==
    passedNil = {}

\* C17: once Close has been called, or Run has returned, the peer is closed
\* for good: no later call of Run starts a subsystem task, neither after a
\* Close nor a second time.
C17_ClosedIsTerminal ==
    [][ (closeCalls >= 1 \/ runPc = "returned") =>
            \A t \in Range(RunOrder) : task'[t] = "running" => task[t] = "running" ]_vars

\* C19: a task that returns the cancellation error of its own accord, while
\* neither the caller nor a failure has canceled the shared context, leaves
\* the context uncanceled and the group without error; Run goes on waiting
\* for the tasks still running and, if nothing else fails, returns nil.
C19_OwnCancellation ==
    /\ ~parentCanceled
    /\ FailedTasks = {}
    /\ \E t \in Faulty : ret[t] = Canceled

C19_StrayCancellationIsBenign ==
    C19_OwnCancellation =>
        /\ groupErr = Nil
        /\ runPc = "waiting" =>
              /\ ~ctxCanceled
              /\ RunningTasks # {} => ~ENABLED RunReturn
        /\ runPc = "returned" => runResult = Nil

C19_Witness ==
    /\ C19_OwnCancellation
    /\ runPc = "waiting"
    /\ ~ctxCanceled
    /\ \E t \in Faulty : ret[t] = NoRet /\ task[t] = "running"
    /\ \E t \in Range(RunOrder) \ Faulty : task[t] = "running"

\* C18: under fair scheduling, and with tasks that return once the shared
\* context is canceled, a Run in which a task has returned an error that is
\* no cancellation error, or whose parent context has been canceled,
\* eventually returns.
C18_MustStop == runPc = "waiting" /\ (FailedTasks # {} \/ parentCanceled)

C18_RunEventuallyReturns ==
    C18_MustStop ~> (runPc = "returned")

C18_Witness ==
    /\ runPc = "returned"
    /\ ~parentCanceled
    /\ Cardinality(FailedTasks) = 1
    /\ runResult \in { ret[t] : t \in FailedTasks }
    /\ \E t \in Faulty : ret[t] = Nil

\* C14: a SetMetadata called after Commit or Abort fails with ErrUploadDone
\* and changes nothing, a Commit called after Abort fails, and on an upload
\* on which neither was called SetMetadata, Write and Commit succeed.
C14_WasDone == lastCall.closed \/ lastCall.aborted

C14_DoneAfterCommitOrAbort ==
    /\ (lastCall.op = "SetMetadata" /\ C14_WasDone) => lastCall.err = ErrUploadDone
    /\ (lastCall.op = "Commit" /\ lastCall.aborted) => lastCall.err # Nil /\ ~closed
    /\ (lastCall.op \in {"SetMetadata", "Write", "Commit"} /\ ~C14_WasDone) =>
          lastCall.err = Nil
    /\ (lastCall.op = "SetMetadata" /\ ~C14_WasDone) => metadata \in MetadataValues
    /\ (lastCall.op = "Commit" /\ ~C14_WasDone) => closed

C14_Witness ==
    /\ lastCall.op = "SetMetadata"
    /\ lastCall.closed
    /\ lastCall.err = ErrUploadDone
    /\ metadata = [standard |-> "std1", custom |-> "custom2"]
    /\ written = MaxWrites

C14_WitnessAbort ==
    /\ lastCall.op = "Commit"
    /\ lastCall.aborted
    /\ lastCall.err # Nil

\* C12: a ScheduleAndFlush that returns a response returns the response to
\* the item passed in that call, however many items were scheduled before
\* and however many responses the batcher returned.
C12_OwnResponse ==
    \A p \in Callers :
        (pc[p] = "idle" /\ call[p].op = "ScheduleAndFlush" /\ result[p].err = Nil) =>
            result[p].resp = call[p].item

\* C13: every item scheduled is handed to the batcher by the first flush
\* after its scheduling and by no other: the items issued so far followed by
\* the items still scheduled are the items scheduled so far, in scheduling
\* order and without repetition, and a flush leaves nothing scheduled behind,
\* its batch being the latest items scheduled.
Batching == { p \in Callers : pc[p] = "batching" }

C13_IssuedOnceInOrder ==
    /\ issuedLog \o Scheduled = scheduledLog
    /\ \A i, j \in 1..Len(issuedLog) : i # j => issuedLog[i] # issuedLog[j]
    /\ \A p \in Batching :
          /\ Scheduled = <<>>
          /\ Len(issuedItems[p]) <= Len(scheduledLog)
          /\ issuedItems[p] =
                SubSeq(scheduledLog, Len(scheduledLog) - Len(issuedItems[p]) + 1,
                       Len(scheduledLog))

C13_Witness ==
    /\ Len(issuedLog) = 3
    /\ \E p \in Batching :
          /\ issuedItems[p] = <<2, 3>>
          /\ call[p].op = "Flush"

\* C20: while a batch is in flight its caller holds the mutex, so that no
\* other call can start, nothing is scheduled, the slice the batcher holds
\* still has the items it was issued with although it shares the backing
\* array of a.scheduled, and no second batcher call is in flight.
C20_BatchIsAtomic ==
    /\ Cardinality(Batching) <= 1
    /\ \A p \in Batching :
          /\ mu = p
          /\ Items(batchItems[p]) = issuedItems[p]
          /\ scheduledLen = 0
          /\ \A q \in Callers :
                /\ ~ENABLED Schedule(q)
                /\ ~ENABLED ScheduleAndFlush(q)
                /\ ~ENABLED Flush(q)

C20_Witness ==
    /\ \E p \in Batching :
          /\ batchItems[p].shared
          /\ issuedItems[p] = <<3>>
    /\ backing = <<3, 2>>
    /\ \E q \in Callers : pc[q] = "idle" /\ call[q].op = "Schedule"

\* C21: when a Flush or ScheduleAndFlush returns, nothing is scheduled,
\* whether the batcher failed or not; the items of a failed batch are gone
\* from the list and no item is ever issued twice; a Flush with nothing
\* scheduled returns nil without a batcher call; and a ScheduleAndFlush
\* whose batcher returned no error returns either a response or the error
\* "missing batch responses", never nil for both.
C21_FlushReturns(p) ==
    BatchReturn(p) =>
        /\ scheduledLen' = 0
        /\ result'[p].err = ErrBatch =>
              /\ result'[p].resp = NoItem
              /\ \A i \in 1..Len(backing') :
                    i <= scheduledLen' => backing'[i] \notin { issuedItems[p][k] : k \in 1..Len(issuedItems[p]) }
        /\ call[p].op = "ScheduleAndFlush" =>
              /\ result'[p].err \in {Nil, ErrBatch, ErrMissing}
              /\ (result'[p].err = Nil) <=> (result'[p].resp # NoItem)

C21_EmptyFlush(p) ==
    (Flush(p) /\ scheduledLen = 0) =>
        /\ pc'[p] = "idle"
        /\ result'[p] = [resp |-> NoItem, err |-> Nil]
        /\ issuedLog' = issuedLog
        /\ scheduledLen' = 0

C21_NonEmptyFlush(p) ==
    ((Flush(p) \/ ScheduleAndFlush(p)) /\ pc'[p] = "batching") =>
        /\ scheduledLen' = 0
        /\ issuedLog' # issuedLog

C21_NeverReissued ==
    \A i, j \in 1..Len(issuedLog) : i < j => issuedLog[i] < issuedLog[j]

C21_FlushEmptiesWhateverTheOutcome ==
    /\ []C21_NeverReissued
    /\ [][\A p \in Callers :
            C21_FlushReturns(p) /\ C21_EmptyFlush(p) /\ C21_NonEmptyFlush(p)]_vars

C21_Witness ==
    /\ scheduledLen = 0
    /\ Batching = {}
    /\ Len(issuedLog) = 2
    /\ \E p, q \in Callers :
          /\ call[p].op = "ScheduleAndFlush"
          /\ result[p] = [resp |-> NoItem, err |-> ErrMissing]
          /\ call[q].op = "Flush"
          /\ result[q].err = ErrBatch

====
